---- MODULE Spec2Model ----
(***************************************************************************)
(* Model of get_route_nodes.py: the route-to-node pipeline.                *)
(*                                                                         *)
(*   get_nodes        one request to the routing service, turned into a    *)
(*                    list of [node_id, lat, lon] points                   *)
(*   module level     the calls of get_nodes, the concatenation of their   *)
(*                    results and the look-back loop that removes points   *)
(*                    whose id is among the five most recently kept ids    *)
(*   gcd              the great-circle distance of two places              *)
(*   module level     the DataFrame of the cleaned points with its three   *)
(*                    distance columns, route_nodes.csv, and the two       *)
(*                    geojson files built by point_string and line_string  *)
(*                                                                         *)
(* Spec, SpecSeam and SpecDedup follow the script to the end of the        *)
(* look-back loop (line 193); SpecOutput follows it from there to its last *)
(* line, for any sequence the loop can end with; SpecGcd is line 208 on    *)
(* rows with missing coordinates.                                          *)
(*                                                                         *)
(* Python values.  A point is the list [id, lat, lon], here the tuple      *)
(* <<id, lat, lon>>.  An id is a Python object: the str built by get_nodes *)
(* or the int 0 of the initial window; a str never equals an int, so an id *)
(* carries its type.  Coordinates are floats with integral values, written *)
(* as integers (whole degrees); str() of such a float ends in ".0".        *)
(***************************************************************************)
EXTENDS Integers, Sequences, FiniteSets, TLC

VARIABLES
    pc,               \* position in the script
    calls,            \* the get_nodes calls written at lines 161-168
    requests,         \* the GET requests sent so far (their URLs)
    responses,        \* the responses received so far, one per request
    node_lists,       \* node_list1, node_list2, ...: the lists returned so far
    full_node_list,   \* line 173
    node_list_clean,  \* line 179
    prev_5_nodes,     \* line 180
    i,                \* loop index of line 185: the next index to process
    exc,              \* the uncaught exception that ended the script, or "none"
    df,               \* line 204: the DataFrame, a record of its columns
    points_count,     \* line 242
    s_points,         \* lines 253-254: the rows of the point collection
    s_line,           \* lines 281-282: the rows of the line collection
    files             \* the three output files of the working directory

\* what the script computes after the look-back loop
annotated == <<df, points_count, s_points, s_line, files>>

vars == <<pc, calls, requests, responses, node_lists, full_node_list,
          node_list_clean, prev_5_nodes, i, exc, annotated>>

----------------------------------------------------------------------------
(* Bounds of the model *)

\* longest input sequence handed to the look-back loop on its own
MaxLen == 8

\* most get_nodes calls in one run of the script
MaxCalls == 2

\* most intersections the routing service reports in one run of the script
MaxIntersections == 3

\* most intersections the routing service reports in one run of two segments
\* that share their boundary intersection
MaxSeamIntersections == 7

\* longest cleaned sequence handed to the distance and output steps on its own
MaxNodes == 4

----------------------------------------------------------------------------
(* Python values *)

PyStr(s) == [type |-> "str", val |-> s]

PyInt(n) == [type |-> "int", val |-> ToString(n)]

\* str(x) for a float x with an integral value: str(33.0) = '33.0'
str(x) == ToString(x) \o ".0"

\* the number of entries of the window, line 180
WindowSize == 5

\* the k-th location a routing response may name, as OSRM gives it: [lon, lat]
Loc(k) == <<-84 - k, 33 + k>>

----------------------------------------------------------------------------
(* get_nodes, lines 65-108 *)

\* lines 76-78
api_string(o_lat, o_lon, d_lat, d_lon) ==
    "http://router.project-osrm.org/route/v1/driving/" \o str(o_lon)
        \o "," \o str(o_lat) \o ";" \o str(d_lon) \o "," \o str(d_lat)
        \o "?overview=false&steps=true"

\* lat and lon exchanged: location[0] taken for the latitude.
node_swapped(location) ==
    << PyStr(str(location[1]) \o "|" \o str(location[2])),
       location[1], location[2] >>

\* lines 101-102: the point built for one intersection
node(location) ==
    << PyStr(str(location[2]) \o "|" \o str(location[1])),
       location[2], location[1] >>

\* lines 98-102: the points of the intersections of the steps, in step order
\* and, within a step, in intersection order
RECURSIVE node_list(_)
node_list(steps) ==
    IF steps = <<>> THEN <<>>
    ELSE LET s == Head(steps)
         IN  [j \in 1..Len(s.intersections) |-> node(s.intersections[j].location)]
                 \o node_list(Tail(steps))

\* What a call of get_nodes does with the response r to its request: it
\* returns a list or raises.
Return(list) == [kind |-> "return", value |-> list, exc |-> "none"]

Raise(e) == [kind |-> "raise", value |-> <<>>, exc |-> e]

\* A non-200 response answered with an empty list instead of no list.
get_nodes_empty_list(o_lat, o_lon, d_lat, d_lon, r) ==
    IF r.status_code # 200
    THEN Return(<<>>)
    ELSE IF Len(r.routes) = 0
    THEN Raise("IndexError")
    ELSE Return(<< <<PyStr("start"), o_lat, o_lon>> >>
                    \o node_list(r.routes[1].legs[1].steps)
                    \o << <<PyStr("end"), d_lat, d_lon>> >>)

\* lines 83-108.  d_lat is a float, so line 86, which adds d_lat itself to a
\* str, raises TypeError before anything is printed and before the return of
\* line 88.  ['routes'][0] of a body without routes raises IndexError (the
\* one malformed body modelled; a body that is no JSON or lacks a key raises
\* in the same place).
get_nodes(o_lat, o_lon, d_lat, d_lon, r) ==
    IF r.status_code # 200
    THEN Raise("TypeError")
    ELSE IF Len(r.routes) = 0
    THEN Raise("IndexError")
    ELSE Return(<< <<PyStr("start"), o_lat, o_lon>> >>
                    \o node_list(r.routes[1].legs[1].steps)
                    \o << <<PyStr("end"), d_lat, d_lon>> >>)

\* One call of get_nodes at module level (lines 161, 167, 168): the request
\* is sent (line 81), the routing service answers with some r of R, and the
\* call returns its list or raises; an exception is not caught anywhere and
\* ends the script.
GetNodesCall(R) ==
    /\ pc = "get_nodes"
    /\ LET k == Len(node_lists) + 1
           c == calls[k]
       IN  \E r \in R :
              LET result == get_nodes(c[1], c[2], c[3], c[4], r)
              IN  /\ requests' = Append(requests, api_string(c[1], c[2], c[3], c[4]))
                  /\ responses' = Append(responses, r)
                  /\ IF result.kind = "raise"
                     THEN /\ pc' = "crashed"
                          /\ exc' = result.exc
                          /\ UNCHANGED node_lists
                     ELSE /\ node_lists' = Append(node_lists, result.value)
                          /\ pc' = IF k = Len(calls) THEN "concat" ELSE "get_nodes"
                          /\ UNCHANGED exc
    /\ UNCHANGED <<calls, full_node_list, node_list_clean, prev_5_nodes, i>>
    /\ UNCHANGED annotated

RECURSIVE Concatenation(_)
Concatenation(lists) ==
    IF lists = <<>> THEN <<>> ELSE Head(lists) \o Concatenation(Tail(lists))

\* line 173: full_node_list = node_list1 + node_list2 + node_list3
Concat ==
    /\ pc = "concat"
    /\ full_node_list' = Concatenation(node_lists)
    /\ pc' = "dedup"
    /\ UNCHANGED <<calls, requests, responses, node_lists, node_list_clean,
                   prev_5_nodes, i, exc>>
    /\ UNCHANGED annotated

----------------------------------------------------------------------------
(* The look-back loop, lines 179-191 *)

\* [0,0,0,0] instead of [0,0,0,0,0]: a window of four entries.
prev_5_nodes_short == <<PyInt(0), PyInt(0), PyInt(0), PyInt(0)>>

\* line 180: prev_5_nodes = [0,0,0,0,0]
prev_5_nodes_init == <<PyInt(0), PyInt(0), PyInt(0), PyInt(0), PyInt(0)>>

\* Only the id kept immediately before is compared, not the five last ones.
In_previous_only(id, window) == window[Len(window)] = id

\* line 186: full_node_list[i][0] in prev_5_nodes
In(id, window) == \E j \in 1..Len(window) : window[j] = id

\* A slip in the indentation of lines 190-191: the window is updated for
\* every point, kept or dropped.
LoopBody_push_always(clean, window, p) ==
    [ node_list_clean |-> IF ~In(p[1], window) THEN Append(clean, p) ELSE clean,
      prev_5_nodes    |-> Append(Tail(window), p[1]) ]

\* del prev_5_nodes[-1] instead of del prev_5_nodes[0]: the newest id is
\* evicted, not the oldest.
LoopBody_evict_newest(clean, window, p) ==
    IF ~In(p[1], window)
    THEN [ node_list_clean |-> Append(clean, p),
           prev_5_nodes    |-> Append(SubSeq(window, 1, Len(window) - 1), p[1]) ]
    ELSE [ node_list_clean |-> clean, prev_5_nodes |-> window ]

\* node_list_clean.insert(0, ...) instead of append: the kept point is put
\* at the front.
LoopBody_prepend(clean, window, p) ==
    IF ~In(p[1], window)
    THEN [ node_list_clean |-> <<p>> \o clean,
           prev_5_nodes    |-> Append(Tail(window), p[1]) ]
    ELSE [ node_list_clean |-> clean, prev_5_nodes |-> window ]

\* lines 186-191: one iteration, on the point p = full_node_list[i]
LoopBody(clean, window, p) ==
    IF ~In(p[1], window)
    THEN [ node_list_clean |-> Append(clean, p),
           prev_5_nodes    |-> Append(Tail(window), p[1]) ]
    ELSE [ node_list_clean |-> clean, prev_5_nodes |-> window ]

\* lines 179-191 as a function of full_node_list: the state after the loop
RECURSIVE Loop(_)
Loop(x) ==
    IF x = <<>>
    THEN [ node_list_clean |-> <<>>, prev_5_nodes |-> prev_5_nodes_init ]
    ELSE LET before == Loop(SubSeq(x, 1, Len(x) - 1))
         IN  LoopBody(before.node_list_clean, before.prev_5_nodes, x[Len(x)])

dedupe(x) == Loop(x).node_list_clean

\* lines 179-183
DedupInit ==
    /\ pc = "dedup"
    /\ node_list_clean' = <<>>
    /\ prev_5_nodes' = prev_5_nodes_init
    /\ i' = 0
    /\ pc' = "loop"
    /\ UNCHANGED <<calls, requests, responses, node_lists, full_node_list, exc>>
    /\ UNCHANGED annotated

\* lines 185-191, one iteration
DedupStep ==
    /\ pc = "loop"
    /\ i < Len(full_node_list)
    /\ LET after == LoopBody(node_list_clean, prev_5_nodes, full_node_list[i + 1])
       IN  /\ node_list_clean' = after.node_list_clean
           /\ prev_5_nodes' = after.prev_5_nodes
    /\ i' = i + 1
    /\ UNCHANGED <<pc, calls, requests, responses, node_lists, full_node_list, exc>>
    /\ UNCHANGED annotated

\* line 185 when range(len(full_node_list)) is exhausted, then line 193
DedupExit ==
    /\ pc = "loop"
    /\ i = Len(full_node_list)
    /\ pc' = "distances"
    /\ UNCHANGED <<calls, requests, responses, node_lists, full_node_list,
                   node_list_clean, prev_5_nodes, i, exc>>
    /\ UNCHANGED annotated

----------------------------------------------------------------------------
(* gcd: the great-circle distance of two places *)

(* Floats.  A float cell of the DataFrame is a number or NaN.  Coordinates  *)
(* are whole degrees and distances whole miles.  The functions of math are  *)
(* computed in fixed point: angles, sines and cosines in units of 1/10000,  *)
(* a of line 57 in units of 1/100000000.                                    *)
Float(x) == [nan |-> FALSE, v |-> x]

NaN == [nan |-> TRUE, v |-> 0]

isnull(x) == x.nan

\* line 52
earth_radius == 3956

\* math.radians: x * pi / 180
radians(x) == (x * 17453) \div 100

\* math.sin, by its series x - x^3/3! + x^5/5!
sin(x) ==
    LET x2 == (x * x) \div 10000
        x3 == (x2 * x) \div 10000
        x5 == (x3 * x2) \div 10000
    IN  x - (x3 \div 6) + (x5 \div 120)

\* math.cos, by its series 1 - x^2/2! + x^4/4! - x^6/6!
cos(x) ==
    LET x2 == (x * x) \div 10000
        x4 == (x2 * x2) \div 10000
        x6 == (x4 * x2) \div 10000
    IN  10000 - (x2 \div 2) + (x4 \div 24) - (x6 \div 720)

\* math.sqrt of a number in units of 1/100000000, in units of 1/10000: the
\* largest r in lo..hi with r * r <= n
RECURSIVE sqrt_between(_, _, _)
sqrt_between(n, lo, hi) ==
    IF lo = hi THEN lo
    ELSE LET mid == (lo + hi + 1) \div 2
         IN  IF mid * mid <= n THEN sqrt_between(n, mid, hi)
             ELSE sqrt_between(n, lo, mid - 1)

sqrt(n) == sqrt_between(n, 0, 10000)

\* math.atan of t in 0..1, by its series t - t^3/3 + t^5/5
atan(t) ==
    LET t2 == (t * t) \div 10000
        t3 == (t2 * t) \div 10000
        t5 == (t3 * t2) \div 10000
    IN  t - (t3 \div 3) + (t5 \div 5)

\* math.atan2(y, x) for y >= 0 and x >= 0, not both 0
atan2(y, x) ==
    IF y <= x THEN atan((y * 10000) \div x)
    ELSE 15708 - atan((x * 10000) \div y)

\* lines 52-60, for four numbers
haversine(o_lat, o_lon, d_lat, d_lon) ==
    LET lat_diff == radians(d_lat - o_lat)
        lon_diff == radians(d_lon - o_lon)
        s1 == sin(lat_diff \div 2)
        s2 == sin(lon_diff \div 2)
        a  == s1 * s1
                + ((((cos(radians(o_lat)) * cos(radians(d_lat))) \div 10000)
                       * s2) \div 10000) * s2
        c  == 2 * atan2(sqrt(a), sqrt(100000000 - a))
        d  == (earth_radius * c) \div 10000
    IN  d

\* A missing input is an error instead of a distance of 0.
gcd_raise_on_null(o_lat, o_lon, d_lat, d_lon) ==
    IF isnull(o_lat) \/ isnull(o_lon) \/ isnull(d_lat) \/ isnull(d_lon)
    THEN Raise("TypeError")
    ELSE Return(haversine(o_lat.v, o_lon.v, d_lat.v, d_lon.v))

\* lines 37-62; the arguments are float cells, the distance is in whole miles
gcd(o_lat, o_lon, d_lat, d_lon) ==
    IF isnull(o_lat) \/ isnull(o_lon) \/ isnull(d_lat) \/ isnull(d_lon)
    THEN Return(0)
    ELSE Return(haversine(o_lat.v, o_lon.v, d_lat.v, d_lon.v))

----------------------------------------------------------------------------
(* Between-node distances: the DataFrame and its columns *)

(* A Series is the sequence of its cells, in index order 0, 1, 2, ...; the  *)
(* DataFrame is the record of its columns.                                  *)

\* the c-th entries of the points of a list
Column(list, c) == [j \in 1..Len(list) |-> list[j][c]]

Floats(s) == [j \in 1..Len(s) |-> Float(s[j])]

\* Series.shift() moving the cells the other way
shift_up(s) == [j \in 1..Len(s) |-> IF j = Len(s) THEN NaN ELSE s[j + 1]]

\* Series.shift(): every cell moves one row down, the first row gets NaN
shift(s) == [j \in 1..Len(s) |-> IF j = 1 THEN NaN ELSE s[j - 1]]

\* Series.shift(-1): every cell moves one row up, the last row gets NaN
shift_minus_1(s) == [j \in 1..Len(s) |-> IF j = Len(s) THEN NaN ELSE s[j + 1]]

\* Series.fillna(x)
fillna(s, x) == [j \in 1..Len(s) |-> IF isnull(s[j]) THEN Float(x) ELSE s[j]]

\* the sum of the cells of s[1..j] that are not NaN
RECURSIVE Total(_, _)
Total(s, j) ==
    IF j = 0 THEN 0
    ELSE Total(s, j - 1) + (IF isnull(s[j]) THEN 0 ELSE s[j].v)

\* A running sum that leaves out the row's own cell.
cumsum_exclusive(s) ==
    [j \in 1..Len(s) |-> IF isnull(s[j]) THEN NaN ELSE Float(Total(s, j - 1))]

\* Series.cumsum(): the running sum; NaN cells are skipped and stay NaN
cumsum(s) ==
    [j \in 1..Len(s) |-> IF isnull(s[j]) THEN NaN ELSE Float(Total(s, j))]

\* df[name] = col
WithColumn(d, name, col) ==
    [c \in DOMAIN d \cup {name} |-> IF c = name THEN col ELSE d[c]]

\* df.drop(columns = names)
Drop(d, names) == [c \in DOMAIN d \ names |-> d[c]]

\* a file as an earlier run left it, and a file holding the rows this run
\* has written to it
Previous == [previous |-> TRUE, rows |-> <<>>]

Content(rows) == [previous |-> FALSE, rows |-> rows]

\* before line 204: the names of lines 204-285 are not bound yet (here: empty
\* values), the output files are those of an earlier run
NotAnnotated ==
    /\ df = <<>>
    /\ points_count = 0
    /\ s_points = <<>>
    /\ s_line = <<>>
    /\ files = [csv |-> Previous, points |-> Previous, line |-> Previous]

\* lines 204-207
frame(clean) ==
    LET node_lat == Floats(Column(clean, 2))
        node_lon == Floats(Column(clean, 3))
    IN  [ node_id  |-> Column(clean, 1),
          node_lat |-> node_lat,
          node_lon |-> node_lon,
          prev_lat |-> shift(node_lat),
          prev_lon |-> shift(node_lon) ]

MakeFrame ==
    /\ pc = "distances"
    /\ df' = frame(node_list_clean)
    /\ pc' = "apply"
    /\ UNCHANGED <<calls, requests, responses, node_lists, full_node_list,
                   node_list_clean, prev_5_nodes, i, exc>>
    /\ UNCHANGED <<points_count, s_points, s_line, files>>

\* the number of rows
len(d) == Len(d.node_id)

\* Lines 208-210.  gcd is called once per row, and the column holds what it
\* returned (the 0 of a row with a missing input next to the floats of the
\* other rows: 0.0).  For a frame without rows apply calls nothing and
\* returns a copy of the frame, not a Series, and assigning a frame of five
\* columns to the one column raises ValueError.
ApplyGcd ==
    /\ pc = "apply"
    /\ LET applied == [j \in 1..len(df) |->
                          gcd(df.prev_lat[j], df.prev_lon[j],
                              df.node_lat[j], df.node_lon[j])]
           raising == {j \in 1..len(df) : applied[j].kind = "raise"}
       IN  IF len(df) = 0
           THEN /\ pc' = "crashed"
                /\ exc' = "ValueError"
                /\ UNCHANGED df
           ELSE IF raising # {}
           THEN /\ pc' = "crashed"
                /\ exc' = applied[CHOOSE j \in raising :
                                      \A k \in raising : j <= k].exc
                /\ UNCHANGED df
           ELSE /\ df' = WithColumn(df, "dist_from_prev",
                             [j \in 1..len(df) |-> Float(applied[j].value)])
                /\ pc' = "annotate"
                /\ UNCHANGED exc
    /\ UNCHANGED <<calls, requests, responses, node_lists, full_node_list,
                   node_list_clean, prev_5_nodes, i>>
    /\ UNCHANGED <<points_count, s_points, s_line, files>>

\* lines 213-221
Annotate ==
    /\ pc = "annotate"
    /\ LET dist_to_next == fillna(shift_minus_1(df.dist_from_prev), 0)
           cuml_dist == fillna(cumsum(df.dist_from_prev), 0)
       IN  df' = Drop(WithColumn(WithColumn(df, "dist_to_next", dist_to_next),
                                 "cuml_dist", cuml_dist),
                      {"prev_lat", "prev_lon"})
    /\ pc' = "to_csv"
    /\ UNCHANGED <<calls, requests, responses, node_lists, full_node_list,
                   node_list_clean, prev_5_nodes, i, exc>>
    /\ UNCHANGED <<points_count, s_points, s_line, files>>

----------------------------------------------------------------------------
(* The output files: route_nodes.csv and the two geojson files *)

(* Text.  A str holding JSON text is the sequence of its JSON tokens: the   *)
(* white space between tokens is left out, a string token holds the         *)
(* characters between its quotes, a number token the characters str() gave. *)
(* The rows of s_points and s_line are such strs.  A file is the sequence   *)
(* of the rows written to it: the layout to_string gives the rows (padding, *)
(* line breaks, and the cutting of rows longer than pandas'                 *)
(* display.max_colwidth, an option this script leaves as it finds it) is    *)
(* not part of the model.                                                   *)
JPunct(c) == [t |-> "punct", v |-> c]

JString(x) == [t |-> "string", v |-> x]

JNumber(x) == [t |-> "number", v |-> x]

\* str(x) for a float cell
str_float(x) == IF isnull(x) THEN "nan" ELSE str(x.v)

\* the row of index j - 1, as apply(axis = 1) hands it to its function
Row(d, j) ==
    [c \in DOMAIN d \cup {"name"} |-> IF c = "name" THEN j - 1 ELSE d[c][j]]

\* df.to_csv(index=True, index_label='node_order'): the header and one
\* record per row, each a sequence of fields
csv(d) ==
    << <<"node_order", "node_id", "node_lat", "node_lon",
         "dist_from_prev", "dist_to_next", "cuml_dist">> >>
    \o [j \in 1..len(d) |->
           <<ToString(j - 1), d.node_id[j].val,
             str_float(d.node_lat[j]), str_float(d.node_lon[j]),
             str_float(d.dist_from_prev[j]), str_float(d.dist_to_next[j]),
             str_float(d.cuml_dist[j])>>]

\* point_string writing latitude before longitude
point_string_lat_first(row, count) ==
    << JPunct("{"),
       JString("type"), JPunct(":"), JString("Feature"), JPunct(","),
       JString("properties"), JPunct(":"), JPunct("{"),
       JString("node_order"), JPunct(":"), JNumber(ToString(row.name)), JPunct(","),
       JString("node_id"), JPunct(":"), JString(row.node_id.val), JPunct(","),
       JString("distance_from_prev_node"), JPunct(":"),
           JNumber(str_float(row.dist_from_prev)), JPunct(","),
       JString("cuml_distance"), JPunct(":"),
           JNumber(str_float(row.cuml_dist)), JPunct(","),
       JString("distance_to_next_node"), JPunct(":"),
           JNumber(str_float(row.dist_to_next)), JPunct(","),
       JString("type"), JPunct(":"), JString("route node"),
       JPunct("}"), JPunct(","),
       JString("geometry"), JPunct(":"), JPunct("{"),
       JString("type"), JPunct(":"), JString("Point"), JPunct(","),
       JString("coordinates"), JPunct(":"), JPunct("["),
           JNumber(str_float(row.node_lat)), JPunct(","),
           JNumber(str_float(row.node_lon)), JPunct("]"),
       JPunct("}"),
       JPunct("}") >>
    \o (IF ~(row.name = count - 1) THEN <<JPunct(",")>> ELSE <<>>)

\* point_string writing the cumulative distance where the distance from the
\* previous node belongs, and the other way round
point_string_distances_swapped(row, count) ==
    << JPunct("{"),
       JString("type"), JPunct(":"), JString("Feature"), JPunct(","),
       JString("properties"), JPunct(":"), JPunct("{"),
       JString("node_order"), JPunct(":"), JNumber(ToString(row.name)), JPunct(","),
       JString("node_id"), JPunct(":"), JString(row.node_id.val), JPunct(","),
       JString("distance_from_prev_node"), JPunct(":"),
           JNumber(str_float(row.cuml_dist)), JPunct(","),
       JString("cuml_distance"), JPunct(":"),
           JNumber(str_float(row.dist_from_prev)), JPunct(","),
       JString("distance_to_next_node"), JPunct(":"),
           JNumber(str_float(row.dist_to_next)), JPunct(","),
       JString("type"), JPunct(":"), JString("route node"),
       JPunct("}"), JPunct(","),
       JString("geometry"), JPunct(":"), JPunct("{"),
       JString("type"), JPunct(":"), JString("Point"), JPunct(","),
       JString("coordinates"), JPunct(":"), JPunct("["),
           JNumber(str_float(row.node_lon)), JPunct(","),
           JNumber(str_float(row.node_lat)), JPunct("]"),
       JPunct("}"),
       JPunct("}") >>
    \o (IF ~(row.name = count - 1) THEN <<JPunct(",")>> ELSE <<>>)

\* lines 111-135
point_string(row, count) ==
    << JPunct("{"),
       JString("type"), JPunct(":"), JString("Feature"), JPunct(","),
       JString("properties"), JPunct(":"), JPunct("{"),
       JString("node_order"), JPunct(":"), JNumber(ToString(row.name)), JPunct(","),
       JString("node_id"), JPunct(":"), JString(row.node_id.val), JPunct(","),
       JString("distance_from_prev_node"), JPunct(":"),
           JNumber(str_float(row.dist_from_prev)), JPunct(","),
       JString("cuml_distance"), JPunct(":"),
           JNumber(str_float(row.cuml_dist)), JPunct(","),
       JString("distance_to_next_node"), JPunct(":"),
           JNumber(str_float(row.dist_to_next)), JPunct(","),
       JString("type"), JPunct(":"), JString("route node"),
       JPunct("}"), JPunct(","),
       JString("geometry"), JPunct(":"), JPunct("{"),
       JString("type"), JPunct(":"), JString("Point"), JPunct(","),
       JString("coordinates"), JPunct(":"), JPunct("["),
           JNumber(str_float(row.node_lon)), JPunct(","),
           JNumber(str_float(row.node_lat)), JPunct("]"),
       JPunct("}"),
       JPunct("}") >>
    \o (IF ~(row.name = count - 1) THEN <<JPunct(",")>> ELSE <<>>)

\* line_string putting a comma after every pair
line_string_comma_always(row, count) ==
    << JPunct("["), JNumber(str_float(row.node_lon)), JPunct(","),
       JNumber(str_float(row.node_lat)), JPunct("]"), JPunct(",") >>

\* line_string writing latitude before longitude
line_string_lat_first(row, count) ==
    << JPunct("["), JNumber(str_float(row.node_lat)), JPunct(","),
       JNumber(str_float(row.node_lon)), JPunct("]") >>
    \o (IF ~(row.name = count - 1) THEN <<JPunct(",")>> ELSE <<>>)

\* lines 138-148
line_string(row, count) ==
    << JPunct("["), JNumber(str_float(row.node_lon)), JPunct(","),
       JNumber(str_float(row.node_lat)), JPunct("]") >>
    \o (IF ~(row.name = count - 1) THEN <<JPunct(",")>> ELSE <<>>)

\* lines 244-246
points_header ==
    << JPunct("{"),
       JString("type"), JPunct(":"), JString("FeatureCollection"), JPunct(","),
       JString("features"), JPunct(":"), JPunct("[") >>

\* lines 249-250
points_footer == << JPunct("]"), JPunct("}") >>

\* lines 263-271
line_header ==
    << JPunct("{"),
       JString("type"), JPunct(":"), JString("FeatureCollection"), JPunct(","),
       JString("features"), JPunct(":"), JPunct("["),
       JPunct("{"),
       JString("type"), JPunct(":"), JString("Feature"), JPunct(","),
       JString("properties"), JPunct(":"), JPunct("{"), JPunct("}"), JPunct(","),
       JString("geometry"), JPunct(":"), JPunct("{"),
       JString("type"), JPunct(":"), JString("LineString"), JPunct(","),
       JString("coordinates"), JPunct(":"), JPunct("[") >>

\* lines 274-278
line_footer ==
    << JPunct("]"), JPunct("}"), JPunct("}"), JPunct("]"), JPunct("}") >>

\* the rows a failed write has left in a file it was to fill with `rows`:
\* some of the first rows, never all of them
Partial(rows) == { SubSeq(rows, 1, k) : k \in 0..(Len(rows) - 1) }

\* Line 230.  to_csv opens route_nodes.csv for writing, which empties it,
\* and writes the rows; the write succeeds or fails with an OSError (a full
\* disk, a lost volume).
ToCsv ==
    /\ pc = "to_csv"
    /\ \/ /\ files' = [files EXCEPT !.csv = Content(csv(df))]
          /\ pc' = "points"
          /\ UNCHANGED exc
       \/ /\ \E rows \in Partial(csv(df)) :
                 files' = [files EXCEPT !.csv = Content(rows)]
          /\ pc' = "crashed"
          /\ exc' = "OSError"
    /\ UNCHANGED <<calls, requests, responses, node_lists, full_node_list,
                   node_list_clean, prev_5_nodes, i>>
    /\ UNCHANGED <<df, points_count, s_points, s_line>>

\* lines 242-254
BuildPoints ==
    /\ pc = "points"
    /\ points_count' = len(df)
    /\ s_points' = <<points_header>>
                       \o [j \in 1..len(df) |-> point_string(Row(df, j), len(df))]
                       \o <<points_footer>>
    /\ pc' = "open_points"
    /\ UNCHANGED <<calls, requests, responses, node_lists, full_node_list,
                   node_list_clean, prev_5_nodes, i, exc>>
    /\ UNCHANGED <<df, s_line, files>>

\* line 256: open(..., 'w') empties the file
OpenPoints ==
    /\ pc = "open_points"
    /\ files' = [files EXCEPT !.points = Content(<<>>)]
    /\ pc' = "write_points"
    /\ UNCHANGED <<calls, requests, responses, node_lists, full_node_list,
                   node_list_clean, prev_5_nodes, i, exc>>
    /\ UNCHANGED <<df, points_count, s_points, s_line>>

\* line 257: to_string and f.write, which succeed or fail (MemoryError while
\* the text is built, OSError while it is written); the with statement
\* closes the file either way
WritePoints ==
    /\ pc = "write_points"
    /\ \/ /\ files' = [files EXCEPT !.points = Content(s_points)]
          /\ pc' = "line"
          /\ UNCHANGED exc
       \/ /\ \E rows \in Partial(s_points) :
                 files' = [files EXCEPT !.points = Content(rows)]
          /\ pc' = "crashed"
          /\ \E e \in {"MemoryError", "OSError"} : exc' = e
    /\ UNCHANGED <<calls, requests, responses, node_lists, full_node_list,
                   node_list_clean, prev_5_nodes, i>>
    /\ UNCHANGED <<df, points_count, s_points, s_line>>

\* lines 263-282
BuildLine ==
    /\ pc = "line"
    /\ s_line' = <<line_header>>
                     \o [j \in 1..len(df) |-> line_string(Row(df, j), points_count)]
                     \o <<line_footer>>
    /\ pc' = "open_line"
    /\ UNCHANGED <<calls, requests, responses, node_lists, full_node_list,
                   node_list_clean, prev_5_nodes, i, exc>>
    /\ UNCHANGED <<df, points_count, s_points, files>>

\* line 284
OpenLine ==
    /\ pc = "open_line"
    /\ files' = [files EXCEPT !.line = Content(<<>>)]
    /\ pc' = "write_line"
    /\ UNCHANGED <<calls, requests, responses, node_lists, full_node_list,
                   node_list_clean, prev_5_nodes, i, exc>>
    /\ UNCHANGED <<df, points_count, s_points, s_line>>

\* line 285
WriteLine ==
    /\ pc = "write_line"
    /\ \/ /\ files' = [files EXCEPT !.line = Content(s_line)]
          /\ pc' = "done"
          /\ UNCHANGED exc
       \/ /\ \E rows \in Partial(s_line) :
                 files' = [files EXCEPT !.line = Content(rows)]
          /\ pc' = "crashed"
          /\ \E e \in {"MemoryError", "OSError"} : exc' = e
    /\ UNCHANGED <<calls, requests, responses, node_lists, full_node_list,
                   node_list_clean, prev_5_nodes, i>>
    /\ UNCHANGED <<df, points_count, s_points, s_line>>

----------------------------------------------------------------------------
(* The script: get_nodes calls, concatenation, look-back loop *)

\* the k-th place of a route, as (lat, lon)
Waypoint(k) == <<40 + k, -100 - k>>

\* places out of range: a latitude above 90, a longitude below -180
BadPlaces == { <<91, -100>>, <<40, -181>> }

\* The places of a route of n sections: n + 1 waypoints, all of them valid
\* or one of them replaced by a place out of range.
Itineraries(n) ==
    { [k \in 1..(n + 1) |-> Waypoint(k)] }
    \cup { [k \in 1..(n + 1) |-> IF k = b THEN bad ELSE Waypoint(k)] :
               b \in 1..(n + 1), bad \in BadPlaces }

\* the locations a response names
Locations == { Loc(1), Loc(2) }

\* the status codes of the routing service other than 200
ErrorStatus == { 400, 503 }

\* the steps made of the locations flat[1..n], a new step starting after
\* each position of cuts
StepsOf(flat, cuts) ==
    LET n == Len(flat)
        starts == {1} \cup {c + 1 : c \in cuts}
        ordered == [k \in 1..Cardinality(starts) |->
                       CHOOSE a \in starts :
                           Cardinality({b \in starts : b < a}) = k - 1]
        last(k) == IF k = Cardinality(starts) THEN n ELSE ordered[k + 1] - 1
    IN  IF n = 0 THEN <<>>
        ELSE [k \in 1..Cardinality(starts) |->
                 [intersections |->
                     [j \in 1..(last(k) - ordered[k] + 1) |->
                         [location |-> flat[ordered[k] + j - 1]]]]]

Ok(steps) == [status_code |-> 200, routes |-> << [legs |-> << [steps |-> steps] >>] >>]

\* the intersections the responses received so far have named
Reported ==
    LET RECURSIVE Sum(_)
        Sum(k) == IF k = 0 THEN 0
                  ELSE Sum(k - 1) + (Len(node_lists[k]) - 2)
    IN  Sum(Len(node_lists))

\* the answers of the routing service: an error status, a 200 whose body has
\* no route, or a 200 with a route of one leg whose steps name at most as
\* many intersections as the run has left
Responses ==
    { [status_code |-> st, routes |-> <<>>] : st \in ErrorStatus \cup {200} }
    \cup UNION { UNION { { Ok(StepsOf(flat, cuts)) : cuts \in SUBSET (1..(n - 1)) }
                         : flat \in [1..n -> Locations] }
                 : n \in 0..(MaxIntersections - Reported) }

\* The calls written into the script: one, or several for a route broken
\* into sections, each section starting where the previous one ended.
\* (The directory of line 156 exists: chdir does not raise.)
CallsOf(w) == [k \in 1..(Len(w) - 1) |-> <<w[k][1], w[k][2], w[k + 1][1], w[k + 1][2]>>]

Init ==
    /\ pc = "get_nodes"
    /\ \E n \in 1..MaxCalls : \E w \in Itineraries(n) : calls = CallsOf(w)
    /\ requests = <<>>
    /\ responses = <<>>
    /\ node_lists = <<>>
    /\ full_node_list = <<>>
    /\ node_list_clean = <<>>
    /\ prev_5_nodes = <<>>
    /\ i = 0
    /\ exc = "none"
    /\ NotAnnotated

Next == GetNodesCall(Responses) \/ Concat \/ DedupInit \/ DedupStep \/ DedupExit

Spec == Init /\ [][Next]_vars

----------------------------------------------------------------------------
(* The look-back loop on any input *)

SeqMax(s) == IF s = <<>> THEN 0
             ELSE CHOOSE m \in {s[j] : j \in 1..Len(s)} :
                      \A j \in 1..Len(s) : s[j] <= m

\* The loop reads a point's id only to compare it with other ids, so inputs
\* are enumerated up to a renaming of the ids: the sequences of length n in
\* which the ids appear for the first time in the order 1, 2, 3, ...
\* Continuations(base, n) are the sequences of length n that go on in this
\* way after base.
RECURSIVE Continuations(_, _)
Continuations(base, n) ==
    IF n = 0 THEN {<<>>}
    ELSE { Append(q[1], q[2]) :
             q \in { r \in Continuations(base, n - 1) \X (1..(SeqMax(base) + n)) :
                        r[2] <= SeqMax(base \o r[1]) + 1 } }

Patterns(n) == Continuations(<<>>, n)

\* the points of a pattern: the k-th id is that of the k-th location
PointsOf(s) == [j \in 1..Len(s) |-> node(Loc(s[j]))]

InitDedup ==
    /\ pc = "dedup"
    /\ calls = <<>>
    /\ requests = <<>>
    /\ responses = <<>>
    /\ node_lists = <<>>
    /\ \E n \in 0..MaxLen : \E s \in Patterns(n) : full_node_list = PointsOf(s)
    /\ node_list_clean = <<>>
    /\ prev_5_nodes = <<>>
    /\ i = 0
    /\ exc = "none"
    /\ NotAnnotated

NextDedup == DedupInit \/ DedupStep \/ DedupExit

SpecDedup == InitDedup /\ [][NextDedup]_vars

----------------------------------------------------------------------------
(* A route in two sections that share their boundary intersection *)

\* Loc(k) |-> k
LocIndex(location) == location[2] - 33

\* the locations named by a returned list, as a pattern
PatternOf(list) ==
    [j \in 1..(Len(list) - 2) |-> LocIndex(<<list[j + 1][3], list[j + 1][2]>>)]

\* a route whose intersections are those of the pattern t: the last one
\* belongs to the arrival step, the others to the step before it
Route(t) ==
    Ok(StepsOf([j \in 1..Len(t) |-> Loc(t[j])],
               IF Len(t) > 1 THEN {Len(t) - 1} ELSE {}))

\* The answers of the routing service to the two requests: each a route with
\* at least one intersection, the second one starting at the intersection
\* the first one ended at.
SeamResponses ==
    IF node_lists = <<>>
    THEN UNION { { Route(t) : t \in Patterns(n) } :
                   n \in 1..(MaxSeamIntersections - 1) }
    ELSE LET base == PatternOf(node_lists[1])
         IN  UNION { { Route(t) : t \in { u \in Continuations(base, n) :
                                             u[1] = base[Len(base)] } } :
                       n \in 1..(MaxSeamIntersections - Len(base)) }

InitSeam ==
    /\ pc = "get_nodes"
    /\ calls = CallsOf([k \in 1..3 |-> Waypoint(k)])
    /\ requests = <<>>
    /\ responses = <<>>
    /\ node_lists = <<>>
    /\ full_node_list = <<>>
    /\ node_list_clean = <<>>
    /\ prev_5_nodes = <<>>
    /\ i = 0
    /\ exc = "none"
    /\ NotAnnotated

NextSeam == GetNodesCall(SeamResponses) \/ Concat \/ DedupInit \/ DedupStep \/ DedupExit

SpecSeam == InitSeam /\ [][NextSeam]_vars

----------------------------------------------------------------------------
(* gcd on rows with missing coordinates *)

CoordinateColumns == {"prev_lat", "prev_lon", "node_lat", "node_lon"}

\* the frame d with the cells of its second row in the columns `missing`
\* replaced by NaN
Without(d, missing) ==
    [c \in DOMAIN d |-> IF c \in missing THEN [d[c] EXCEPT ![2] = NaN] ELSE d[c]]

\* Line 208 is reached with the frame of two points; its first row has no
\* previous coordinates, and any of the coordinates of its second row may be
\* missing as well.
InitGcd ==
    /\ pc = "apply"
    /\ calls = <<>>
    /\ requests = <<>>
    /\ responses = <<>>
    /\ node_lists = <<>>
    /\ full_node_list = <<>>
    /\ prev_5_nodes = <<>>
    /\ i = 0
    /\ exc = "none"
    /\ \E a, b \in {1, 2, 3} :
           /\ a # b
           /\ node_list_clean = <<node(Loc(a)), node(Loc(b))>>
    /\ \E missing \in SUBSET CoordinateColumns :
           df = Without(frame(node_list_clean), missing)
    /\ points_count = 0
    /\ s_points = <<>>
    /\ s_line = <<>>
    /\ files = [csv |-> Previous, points |-> Previous, line |-> Previous]

NextGcd == ApplyGcd

SpecGcd == InitGcd /\ [][NextGcd]_vars

----------------------------------------------------------------------------
(* Distances and output files for any cleaned sequence *)

\* The look-back loop has ended (line 193) with any sequence of at most
\* MaxNodes points it leaves as it is, the empty sequence among them.
InitOutput ==
    /\ pc = "distances"
    /\ calls = <<>>
    /\ requests = <<>>
    /\ responses = <<>>
    /\ node_lists = <<>>
    /\ \E n \in 0..MaxNodes : \E x \in [1..n -> 1..MaxNodes] :
           /\ full_node_list = [j \in 1..n |-> node(Loc(x[j]))]
           /\ dedupe(full_node_list) = full_node_list
    /\ node_list_clean = full_node_list
    /\ prev_5_nodes = Loop(full_node_list).prev_5_nodes
    /\ i = Len(full_node_list)
    /\ exc = "none"
    /\ NotAnnotated

NextOutput ==
    \/ MakeFrame \/ ApplyGcd \/ Annotate
    \/ ToCsv
    \/ BuildPoints \/ OpenPoints \/ WritePoints
    \/ BuildLine \/ OpenLine \/ WriteLine

SpecOutput == InitOutput /\ [][NextOutput]_vars

----------------------------------------------------------------------------
(* Claims about the look-back loop, checked under SpecDedup *)

\* the part of full_node_list the loop has processed
Processed == SubSeq(full_node_list, 1, i)

InLoop == pc \in {"loop", "distances"}

\* The reference rule: a window of the 5 most recently kept ids, initially
\* 5 sentinels; a point whose id is in the window is dropped, any other point
\* is appended to the output and its id enters the window while the oldest
\* window entry leaves it.
RefStart ==
    [ out |-> <<>>, window |-> [j \in 1..WindowSize |-> PyInt(0)] ]

RefStep(st, p) ==
    IF p[1] \in {st.window[j] : j \in 1..WindowSize}
    THEN st
    ELSE [ out    |-> st.out \o <<p>>,
           window |-> SubSeq(st.window \o <<p[1]>>, 2, WindowSize + 1) ]

RECURSIVE RefRun(_)
RefRun(x) ==
    IF Len(x) = 0 THEN RefStart
    ELSE RefStep(RefRun(SubSeq(x, 1, Len(x) - 1)), x[Len(x)])

\* C1: after every iteration of the loop, on every input, the output and the
\* window are those of the reference rule applied to the points processed so
\* far; at the end of the loop the output is the reference rule's output.
C1_LoopEqualsReference ==
    InLoop =>
        /\ node_list_clean = RefRun(Processed).out
        /\ prev_5_nodes = RefRun(Processed).window

\* a finished run in which points were dropped and the window has rotated
\* past its sentinels
C1_Witness ==
    /\ pc = "distances"
    /\ Len(node_list_clean) > WindowSize
    /\ Len(node_list_clean) < Len(full_node_list)

\* C2: at every point of the loop, no two positions a < b of node_list_clean
\* with b - a <= 5 hold the same id.
C2_NoRecentRepeat ==
    InLoop =>
        \A a, b \in 1..Len(node_list_clean) :
            (a < b /\ b - a <= WindowSize) =>
                node_list_clean[a][1] # node_list_clean[b][1]

\* the loop is still running and has kept the same id twice, more than five
\* positions apart
C2_Witness ==
    /\ pc = "loop"
    /\ i < Len(full_node_list)
    /\ \E a, b \in 1..Len(node_list_clean) :
           a < b /\ node_list_clean[a][1] = node_list_clean[b][1]

\* C3: the loop run on its own output returns that output unchanged:
\* dedupe(dedupe(x)) = dedupe(x).
C3_Idempotent ==
    pc = "distances" => dedupe(node_list_clean) = node_list_clean

\* a finished run that dropped points and kept one id twice, so that the
\* second pass meets an id it has already kept
C3_Witness ==
    /\ pc = "distances"
    /\ node_list_clean # full_node_list
    /\ \E a, b \in 1..Len(node_list_clean) :
           a < b /\ node_list_clean[a][1] = node_list_clean[b][1]

\* the position of the last kept point with this id, 0 if there is none
LastKept(clean, id) ==
    IF \E j \in 1..Len(clean) : clean[j][1] = id
    THEN CHOOSE j \in 1..Len(clean) :
             /\ clean[j][1] = id
             /\ \A k \in (j + 1)..Len(clean) : clean[k][1] # id
    ELSE 0

ExampleABACA ==
    <<node(Loc(1)), node(Loc(2)), node(Loc(1)), node(Loc(3)), node(Loc(1))>>

ExampleABCDEFA ==
    <<node(Loc(1)), node(Loc(2)), node(Loc(3)), node(Loc(4)), node(Loc(5)),
      node(Loc(6)), node(Loc(1))>>

C4_Examples ==
    pc = "distances" =>
        /\ full_node_list = ExampleABACA =>
               node_list_clean = <<node(Loc(1)), node(Loc(2)), node(Loc(3))>>
        /\ full_node_list = ExampleABCDEFA =>
               /\ node_list_clean = ExampleABCDEFA
               /\ Len(node_list_clean) = 7

C4_Iteration ==
    (pc = "loop" /\ i < Len(full_node_list)) =>
        LET p == full_node_list[i + 1]
            k == LastKept(node_list_clean, p[1])
            others == Len(node_list_clean) - k
        IN  k > 0 =>
                /\ others < WindowSize => node_list_clean' = node_list_clean
                /\ others >= WindowSize => node_list_clean' = Append(node_list_clean, p)

\* C4: a point whose id was kept before is dropped when fewer than 5 other
\* points have been kept since that id was last kept, and is kept again when
\* 5 or more have; [A,B,A,C,A] gives [A,B,C] and [A,B,C,D,E,F,A] keeps all 7.
C4_WindowEviction == []C4_Examples /\ [][C4_Iteration]_vars

\* an input in which the same id is dropped once and, after the window has
\* rotated past it, kept again
C4_Witness ==
    /\ pc = "distances"
    /\ Len(full_node_list) = Len(node_list_clean) + 1
    /\ \E a, b \in 1..Len(node_list_clean) :
           /\ a < b
           /\ node_list_clean[a][1] = node_list_clean[b][1]
           /\ \E c \in (a + 1)..(a + WindowSize) :
                  c <= Len(full_node_list) /\ full_node_list[c][1] = node_list_clean[a][1]

RECURSIVE IsSubsequence(_, _)
IsSubsequence(a, b) ==
    IF a = <<>> THEN TRUE
    ELSE IF b = <<>> THEN FALSE
    ELSE IF Head(a) = Head(b) THEN IsSubsequence(Tail(a), Tail(b))
    ELSE IsSubsequence(a, Tail(b))

\* C6: at every point of the loop node_list_clean is a subsequence of the
\* points processed so far (kept points are input points, unmodified, in
\* input order, and nothing else); an empty input ends with an empty output
\* and no exception.
C6_OrderPreserving ==
    InLoop =>
        /\ IsSubsequence(node_list_clean, Processed)
        /\ (full_node_list = <<>> /\ pc = "distances") =>
               (node_list_clean = <<>> /\ exc = "none")

\* a finished run that kept some points, in order, and dropped others
C6_Witness ==
    /\ pc = "distances"
    /\ Len(node_list_clean) >= 3
    /\ Len(full_node_list) - Len(node_list_clean) >= 2
    /\ node_list_clean[Len(node_list_clean)] = full_node_list[Len(full_node_list)]

\* the ids of the kept points, after five sentinels
PaddedIds ==
    <<PyInt(0), PyInt(0), PyInt(0), PyInt(0), PyInt(0)>>
        \o [j \in 1..Len(node_list_clean) |-> node_list_clean[j][1]]

C20_Window ==
    InLoop =>
        /\ Len(prev_5_nodes) = 5
        /\ prev_5_nodes = SubSeq(PaddedIds, Len(PaddedIds) - 4, Len(PaddedIds))
        /\ \A j \in 1..Len(full_node_list) : full_node_list[j][1] # PyInt(0)
        /\ i >= 1 => /\ node_list_clean # <<>>
                     /\ node_list_clean[1] = full_node_list[1]

\* an iteration that keeps nothing changes neither the window nor the output
C20_Dropped ==
    (pc = "loop" /\ i' = i + 1 /\ Len(node_list_clean') = Len(node_list_clean))
        => (prev_5_nodes' = prev_5_nodes /\ node_list_clean' = node_list_clean)

\* C20: in every state of the loop prev_5_nodes has exactly 5 entries, the
\* ids of the last min(5, k) of the k kept points in kept order after 5 - k
\* sentinels 0; an iteration that drops its point leaves the window and the
\* output as they were; no input id equals the sentinel, and the first input
\* point is kept.
C20_WindowInvariant == []C20_Window /\ [][C20_Dropped]_vars

\* the loop has dropped a point while the window still holds sentinels next
\* to kept ids
C20_Witness ==
    /\ pc = "loop"
    /\ Len(node_list_clean) \in 1..4
    /\ i > Len(node_list_clean)

----------------------------------------------------------------------------
(* Claims about two concatenated sections, checked under SpecSeam *)

Count(points, id) == Cardinality({j \in 1..Len(points) : points[j][1] = id})

\* Two lists have been returned, and the last intersection of the first is
\* the first intersection of the second.
SharedBoundary ==
    /\ Len(node_lists) = 2
    /\ Len(node_lists[1]) > 2
    /\ Len(node_lists[2]) > 2
    /\ node_lists[1][Len(node_lists[1]) - 1][1] = node_lists[2][2][1]

BoundaryId == node_lists[2][2][1]

\* C5 as stated: whatever the two sections are, the cleaned sequence holds
\* the boundary node exactly once.
C5_AsStated ==
    (pc = "distances" /\ SharedBoundary) =>
        Count(node_list_clean, BoundaryId) = 1

\* C5, amended: when each of the two sections passes the boundary node only
\* once (as the last intersection of the first and the first intersection of
\* the second), the cleaned sequence holds the boundary node exactly once.
C5_SeamOnce ==
    (/\ pc = "distances"
     /\ SharedBoundary
     /\ Count(node_lists[1], BoundaryId) = 1
     /\ Count(node_lists[2], BoundaryId) = 1) =>
        Count(node_list_clean, BoundaryId) = 1

\* two sections, each passing the boundary once, the first long enough for
\* its 'end' and the 'start' of the second to be kept between the two copies
C5_Witness ==
    /\ pc = "distances"
    /\ SharedBoundary
    /\ Count(node_lists[1], BoundaryId) = 1
    /\ Count(node_lists[2], BoundaryId) = 1
    /\ Count(full_node_list, BoundaryId) = 2
    /\ Count(node_list_clean, PyStr("start")) = 2
    /\ Count(node_list_clean, BoundaryId) = 1

----------------------------------------------------------------------------
(* Claims about get_nodes and the script, checked under Spec *)

WellFormed(r) == r.status_code = 200 /\ Len(r.routes) > 0

StepsIn(r) == r.routes[1].legs[1].steps

\* the number of intersections of the steps before step s
RECURSIVE Before(_, _)
Before(steps, s) ==
    IF s = 1 THEN 0
    ELSE Before(steps, s - 1) + Len(steps[s - 1].intersections)

\* C7: for a 200 response with a route, the call returns a list that starts
\* with ['start', o_lat, o_lon], ends with ['end', d_lat, d_lon] and holds in
\* between, in step order then intersection order, one point per
\* intersection: id str(lat) + '|' + str(lon), lat = location[1],
\* lon = location[0]; its length is 2 plus the number of intersections.
C7_SuccessfulResponse ==
    \A k \in 1..Len(responses) :
        WellFormed(responses[k]) =>
            /\ k <= Len(node_lists)
            /\ LET list == node_lists[k]
                   steps == StepsIn(responses[k])
                   c == calls[k]
               IN  /\ Len(list) = 2 + Before(steps, Len(steps) + 1)
                   /\ list[1] = <<PyStr("start"), c[1], c[2]>>
                   /\ list[Len(list)] = <<PyStr("end"), c[3], c[4]>>
                   /\ \A s \in 1..Len(steps) :
                        \A t \in 1..Len(steps[s].intersections) :
                           LET location == steps[s].intersections[t].location
                           IN  list[1 + Before(steps, s) + t] =
                                   << PyStr(str(location[2]) \o "|" \o str(location[1])),
                                      location[2], location[1] >>

\* a returned list for a route of two steps, three intersections and two
\* different locations
C7_Witness ==
    \E k \in 1..Len(node_lists) :
        /\ WellFormed(responses[k])
        /\ Len(StepsIn(responses[k])) = 2
        /\ Len(node_lists[k]) = 5
        /\ node_lists[k][2] # node_lists[k][4]

\* C8: a call whose response is not a 200 returns no list, and the script
\* does not enter the look-back loop afterwards.
C8_Non200 ==
    \A k \in 1..Len(responses) :
        responses[k].status_code # 200 =>
            /\ Len(node_lists) < k
            /\ pc \notin {"loop", "distances"}

\* a non-200 response has been received and the call has raised
C8_Witness ==
    /\ Len(responses) > 0
    /\ responses[Len(responses)].status_code # 200
    /\ pc = "crashed"
    /\ exc = "TypeError"

ValidCoordinate(lat, lon) ==
    /\ -90 <= lat /\ lat <= 90
    /\ -180 <= lon /\ lon <= 180

ValidCall(c) == ValidCoordinate(c[1], c[2]) /\ ValidCoordinate(c[3], c[4])

\* C9 as stated: when one of several calls (all with valid coordinates)
\* fails, the script does not crash but goes on with the lists of the calls
\* that succeeded.
C9_AsStated ==
    (/\ Len(calls) >= 2
     /\ \A k \in 1..Len(calls) : ValidCall(calls[k])
     /\ Len(node_lists) >= 1
     /\ \E k \in 1..Len(responses) : responses[k].status_code # 200) =>
        pc # "crashed"

\* C10 as stated: no request is sent for a call with a coordinate out of
\* range.
C10_AsStated ==
    \A k \in 1..Len(requests) : ValidCall(calls[k])

----------------------------------------------------------------------------
(* Claims about gcd, checked under SpecGcd *)

\* the columns in which row j of the frame has no value
MissingIn(j) == {c \in CoordinateColumns : isnull(df[c][j])}

\* C11: gcd returns 0 and does not raise when one or more of its four
\* arguments are missing, whatever the others are; line 208 therefore gives
\* every such row, the first row among them, the distance 0 and the script
\* goes on.
C11_MissingGivesZero ==
    /\ pc # "crashed"
    /\ pc = "apply" =>
           \A j \in 1..len(df) :
               MissingIn(j) # {} =>
                   gcd(df.prev_lat[j], df.prev_lon[j],
                       df.node_lat[j], df.node_lon[j]) = Return(0)
    /\ pc = "annotate" =>
           /\ exc = "none"
           /\ \A j \in 1..len(df) :
                  MissingIn(j) # {} => df.dist_from_prev[j] = Float(0)

\* line 208 has run on a frame whose first row misses the previous
\* coordinates and whose second row misses one coordinate only
C11_Witness ==
    /\ pc = "annotate"
    /\ MissingIn(1) = {"prev_lat", "prev_lon"}
    /\ MissingIn(2) = {"node_lon"}
    /\ df.dist_from_prev = <<Float(0), Float(0)>>

----------------------------------------------------------------------------
(* Claims about the distances, checked under SpecOutput *)

\* lines 213-221 have run: the frame has its three distance columns
Annotated == df # <<>> /\ "cuml_dist" \in DOMAIN df

\* the distance of the j-th point of the cleaned sequence from the point
\* before it
distance(j) ==
    haversine(node_list_clean[j - 1][2], node_list_clean[j - 1][3],
              node_list_clean[j][2], node_list_clean[j][3])

\* C12: for a cleaned sequence of n >= 1 nodes the first node's
\* dist_from_prev is 0, every other node's dist_from_prev is the distance
\* from the node before it, the last node's dist_to_next is 0, and every
\* other node's dist_to_next is the dist_from_prev of the node after it.
C12_AnnotationConsistent ==
    (Annotated /\ len(df) >= 1) =>
        LET n == len(df)
        IN  /\ n = Len(node_list_clean)
            /\ df.dist_from_prev[1] = Float(0)
            /\ df.dist_to_next[n] = Float(0)
            /\ \A j \in 2..n : df.dist_from_prev[j] = Float(distance(j))
            /\ \A j \in 1..(n - 1) : df.dist_to_next[j] = df.dist_from_prev[j + 1]

\* the distances of three or more nodes that are not evenly spaced
C12_Witness ==
    /\ Annotated
    /\ len(df) >= 3
    /\ df.dist_from_prev[2].v > 0
    /\ df.dist_from_prev[3].v > df.dist_from_prev[2].v

\* the sum of the numbers of a column
RECURSIVE SumOf(_)
SumOf(col) == IF col = <<>> THEN 0 ELSE Head(col).v + SumOf(Tail(col))

\* C13: cuml_dist is 0 for the first node and, for every other node, the
\* cuml_dist of the node before it plus the node's own dist_from_prev; the
\* last cuml_dist is the sum of all dist_from_prev, and cuml_dist never
\* decreases along the sequence.
C13_CumulativeDistance ==
    (Annotated /\ len(df) >= 1) =>
        LET n == len(df)
        IN  /\ df.cuml_dist[1] = Float(0)
            /\ \A j \in 2..n :
                   /\ ~isnull(df.cuml_dist[j])
                   /\ df.cuml_dist[j].v = df.cuml_dist[j - 1].v + df.dist_from_prev[j].v
                   /\ df.cuml_dist[j].v >= df.cuml_dist[j - 1].v
            /\ df.cuml_dist[n].v = SumOf(df.dist_from_prev)

\* three or more nodes with growing cumulative distances
C13_Witness ==
    /\ Annotated
    /\ len(df) >= 3
    /\ df.cuml_dist[2].v > 0
    /\ df.cuml_dist[3].v > df.cuml_dist[2].v
    /\ df.cuml_dist[3].v # df.dist_from_prev[3].v

----------------------------------------------------------------------------
(* Claims about the collections, checked under SpecOutput *)

(* Reading JSON text.  Parse reads one JSON value from the tokens t at      *)
(* position p; it gives the value and the position after it, or fails.      *)
(* Members of an object and items of an array are separated by single       *)
(* commas, with no comma after the last one; a number is not nan.           *)
Failed == [ok |-> FALSE, next |-> 0, value |-> <<>>]

Parsed(value, next) == [ok |-> TRUE, next |-> next, value |-> value]

IsPunct(t, p, c) == p <= Len(t) /\ t[p] = JPunct(c)

RECURSIVE Parse(_, _)
RECURSIVE ParseMembers(_, _, _, _)
RECURSIVE ParseItems(_, _, _)

Parse(t, p) ==
    IF p > Len(t) THEN Failed
    ELSE IF t[p].t = "string" THEN Parsed(t[p], p + 1)
    ELSE IF t[p].t = "number"
         THEN IF t[p].v = "nan" THEN Failed ELSE Parsed(t[p], p + 1)
    ELSE IF t[p].v = "{"
         THEN IF IsPunct(t, p + 1, "}")
              THEN Parsed([t |-> "object", keys |-> <<>>, values |-> <<>>], p + 2)
              ELSE ParseMembers(t, p + 1, <<>>, <<>>)
    ELSE IF t[p].v = "["
         THEN IF IsPunct(t, p + 1, "]")
              THEN Parsed([t |-> "array", items |-> <<>>], p + 2)
              ELSE ParseItems(t, p + 1, <<>>)
    ELSE Failed

\* the members of an object from position p on, after the members read
ParseMembers(t, p, keys, values) ==
    IF ~(p + 1 <= Len(t) /\ t[p].t = "string" /\ t[p + 1] = JPunct(":"))
    THEN Failed
    ELSE LET member == Parse(t, p + 2)
         IN  IF ~member.ok THEN Failed
             ELSE IF IsPunct(t, member.next, ",")
                  THEN ParseMembers(t, member.next + 1, Append(keys, t[p].v),
                                    Append(values, member.value))
             ELSE IF IsPunct(t, member.next, "}")
                  THEN Parsed([t |-> "object", keys |-> Append(keys, t[p].v),
                               values |-> Append(values, member.value)],
                              member.next + 1)
             ELSE Failed

\* the items of an array from position p on, after the items read
ParseItems(t, p, items) ==
    LET item == Parse(t, p)
    IN  IF ~item.ok THEN Failed
        ELSE IF IsPunct(t, item.next, ",")
             THEN ParseItems(t, item.next + 1, Append(items, item.value))
        ELSE IF IsPunct(t, item.next, "]")
             THEN Parsed([t |-> "array", items |-> Append(items, item.value)],
                         item.next + 1)
        ELSE Failed

\* the text of a file: its rows one after the other
Text(rows) == Concatenation(rows)

\* the rows are the text of one JSON value, and nothing else
ValidJson(rows) ==
    LET t == Text(rows)
        doc == Parse(t, 1)
    IN  doc.ok /\ doc.next = Len(t) + 1

Document(rows) == Parse(Text(rows), 1).value

\* the value of the member of an object with this key
Member(object, key) ==
    object.values[CHOOSE k \in 1..Len(object.keys) : object.keys[k] = key]

KeysOf(object) == {object.keys[k] : k \in 1..Len(object.keys)}

\* the points file has been written in full
PointsWritten == ~files.points.previous /\ files.points.rows = s_points /\ s_points # <<>>

\* the features of the point collection
Features == Member(Document(files.points.rows), "features").items

Properties(j) == Member(Features[j], "properties")

\* the feature of the j-th node has six properties, the one holding the
\* cumulative distance under the key cuml_key; its type is "route node" and
\* its three distances are those of the node in the frame
PropertiesAre(j, cuml_key) ==
    /\ Len(Properties(j).keys) = 6
    /\ KeysOf(Properties(j)) = {"node_order", "node_id", "distance_from_prev_node",
                                cuml_key, "distance_to_next_node", "type"}
    /\ Member(Properties(j), "type") = JString("route node")
    /\ Member(Properties(j), "distance_from_prev_node")
           = JNumber(str_float(df.dist_from_prev[j]))
    /\ Member(Properties(j), cuml_key) = JNumber(str_float(df.cuml_dist[j]))
    /\ Member(Properties(j), "distance_to_next_node")
           = JNumber(str_float(df.dist_to_next[j]))

LineWritten == ~files.line.previous /\ files.line.rows = s_line /\ s_line # <<>>

Separated(elements) ==
    \A j \in 1..Len(elements) :
        LET row == elements[j]
        IN  /\ Len(row) >= 2
            /\ (j < Len(elements)) <=> (row[Len(row)] = JPunct(","))
            /\ row[Len(row)] = JPunct(",") => row[Len(row) - 1] # JPunct(",")
            /\ row[Len(row)] # JPunct(",") => Parse(row, 1).next = Len(row) + 1
            /\ row[Len(row)] = JPunct(",") => Parse(row, 1).next = Len(row)

\* the rows of a collection between its header and its footer
Elements(rows) == SubSeq(rows, 2, Len(rows) - 1)

----------------------------------------------------------------------------
(* Claims about the empty sequence and failed writes, under SpecOutput *)

\* the exceptions of a write that fails
WriteErrors == {"MemoryError", "OSError"}

C19_AsStated ==
    (pc = "crashed" /\ exc \in WriteErrors) =>
        /\ files.csv \in {Previous, Content(csv(df))}
        /\ files.points \in {Previous, Content(s_points)}
        /\ files.line \in {Previous, Content(s_line)}

====
